---- MODULE Spec2Model ----
(***************************************************************************)
(* Model of backend/app.py of Crypto-Tracker: the CoinGecko helpers        *)
(* (http_get, get_top_coins, get_simple_prices, get_btc_chart_7d,          *)
(* get_coin_logos_by_ids) and the portfolio table with the operations      *)
(* that change it (add_coin, delete_coin, refresh_portfolio_prices).       *)
(*                                                                         *)
(* Python values are modelled as follows.  A dict is a function whose      *)
(* DOMAIN is its key set, a list is a sequence, a str that the code        *)
(* parses (the quantity field) is a sequence of one-character strings.     *)
(* A float is a record [kind, val]: kind "real" with an integer val, or    *)
(* kind "nan"; the SQL NULL of a REAL column is kind "null".  An ISO       *)
(* timestamp is the number of the clock reading that produced it.          *)
(***************************************************************************)
EXTENDS Integers, Sequences, FiniteSets, TLC

\* ---------------------------------------------------------------- bounds
MaxId == 2        \* rows ever inserted (AUTOINCREMENT ids 1..MaxId)
MaxClock == 3     \* readings of datetime.utcnow()

\* ---------------------------------------------------------------- inputs
Coins == {"bitcoin", "ethereum"}
CoinIdInputs == {" Bitcoin ", "ethereum"}
NameInputs == {"Coin"}
SymbolInputs == {"SYM"}
QuantityInputs ==
    { <<"3">>, <<"-", "2">>, <<"a", "b", "c">>, <<"n", "a", "n">> }
Prices == {0, 1}
Procs == {1, 2}

\* ---------------------------------------------------------------- values
F(n) == [kind |-> "real", val |-> n]
NaN == [kind |-> "nan", val |-> 0]
Null == [kind |-> "null", val |-> 0]
PyNone == [py_none |-> TRUE]
EmptyDict == [k \in {} |-> 0]
EmptyList == <<>>
Falsy(v) == DOMAIN v = {}

\* str.strip().lower() on the form inputs above
StripLower(s) ==
    CASE s = " Bitcoin " -> "bitcoin"
      [] s = "SYM" -> "sym"
      [] OTHER -> s
Strip(s) == s

\* float(str) restricted to strings over digits, sign and lowercase letters
\* a, b, c, n: with these characters Python accepts [sign] digits+ and
\* [sign] "nan", and raises ValueError for everything else.
DigitChars == <<"0", "1", "2", "3", "4", "5", "6", "7", "8", "9">>
IsDigit(c) == \E i \in 1..10 : DigitChars[i] = c
DigitVal(c) == (CHOOSE i \in 1..10 : DigitChars[i] = c) - 1
RECURSIVE DecVal(_)
DecVal(s) ==
    IF s = <<>> THEN 0
    ELSE DecVal(SubSeq(s, 1, Len(s) - 1)) * 10 + DigitVal(s[Len(s)])
float_str(s) ==
    LET signed == Len(s) > 0 /\ s[1] \in {"+", "-"}
        body == IF signed THEN Tail(s) ELSE s
        neg == signed /\ s[1] = "-"
    IN  IF Len(body) > 0 /\ \A i \in 1..Len(body) : IsDigit(body[i])
        THEN [ok |-> TRUE, f |-> F(IF neg THEN 0 - DecVal(body) ELSE DecVal(body))]
        ELSE IF body = <<"n", "a", "n">>
        THEN [ok |-> TRUE, f |-> NaN]
        ELSE [ok |-> FALSE, f |-> F(0)]
\* float(number) of a JSON number
float_num(p) == F(p)
\* sqlite3 binds a NaN float to a REAL column as NULL
SqlReal(f) == IF f.kind = "nan" THEN Null ELSE f

\* ---------------------------------------------------------------- state
VARIABLES rows, nextId, clock,            \* the portfolio table and the clock
          last, lastPrice, seen,          \* history of the last operation
          pc, r_ids, r_prices, r_now,     \* interleaved refreshes: locals
          overtaken, stamps, lost         \* interleaved refreshes: history
store == <<rows, nextId, clock>>
hist == <<last, lastPrice, seen>>
conc == <<pc, r_ids, r_prices, r_now, overtaken, stamps, lost>>
vars == <<rows, nextId, clock, last, lastPrice, seen,
          pc, r_ids, r_prices, r_now, overtaken, stamps, lost>>

\* ---------------------------------------------------------------- HTTP
\* the outcome of session.get(...).raise_for_status()/.json(): a
\* RequestException (retries exhausted included) or the decoded JSON
HttpError == [ok |-> FALSE, json |-> EmptyDict]
HttpOk(j) == [ok |-> TRUE, json |-> j]

http_get(out) ==
    IF out.ok THEN [none |-> FALSE, val |-> out.json]
    ELSE [none |-> TRUE, val |-> EmptyDict]

OrDefault(data, default) ==
    IF data.none \/ Falsy(data.val) THEN default ELSE data.val

\* /simple/price answers for the requested ids: an id is missing, or its
\* entry has no usd key, or it has a usd price
NoUsd == EmptyDict
PriceEntries == {NoUsd} \cup {[usd |-> p] : p \in Prices}
RECURSIVE SeqToSet(_)
SeqToSet(s) == IF s = <<>> THEN {} ELSE {Head(s)} \cup SeqToSet(Tail(s))
SimplePriceJson(ids) ==
    UNION {[S -> PriceEntries] : S \in SUBSET SeqToSet(ids)}
SimplePriceOutcomes(ids) ==
    {HttpError} \cup {HttpOk(j) : j \in SimplePriceJson(ids)}

\* variant: the "or {}" default is missing
get_simple_prices_no_default(ids, out) ==
    IF http_get(out).none THEN PyNone ELSE http_get(out).val
get_simple_prices(ids, out) == OrDefault(http_get(out), EmptyDict)

\* dict.get(key, default)
DictGet(d, k, default) == IF k \in DOMAIN d THEN d[k] ELSE default
\* prices.get(coin_id, {}).get("usd") is not None
HasUsd(prices, coin_id) == "usd" \in DOMAIN DictGet(prices, coin_id, EmptyDict)
UsdOf(prices, coin_id) == DictGet(prices, coin_id, EmptyDict).usd

\* ---------------------------------------------------------------- gateway
\* /coins/markets answers: a list of coin dicts
BtcItem == [id |-> "bitcoin", name |-> "Bitcoin", image |-> "btc.png"]
EthItem == [id |-> "ethereum", name |-> "Ethereum", image |-> "eth.png"]
AnonItem == [name |-> "Nameless", image |-> "x.png"]
MarketsJson == {EmptyList, <<BtcItem>>, <<BtcItem, EthItem>>, <<AnonItem, EthItem>>}
MarketsOutcomes == {HttpError} \cup {HttpOk(j) : j \in MarketsJson}

get_top_coins(out) == OrDefault(http_get(out), EmptyList)

\* {item.get("id"): item.get("image") for item in data if item.get("id")}
LogoDict(data) ==
    LET withId == {i \in 1..Len(data) : "id" \in DOMAIN data[i]}
    IN  [c \in {data[i].id : i \in withId} |->
            data[CHOOSE i \in withId :
                    /\ data[i].id = c
                    /\ \A j \in withId : data[j].id = c => j <= i].image]
get_coin_logos_by_ids(ids, out) ==
    IF ids = <<>> THEN EmptyDict
    ELSE LogoDict(OrDefault(http_get(out), EmptyList))

\* /coins/bitcoin/market_chart answers: {"prices": [[ms, price], ...]}; a
\* price is given in thousandths of a dollar, a rounded value in hundredths
\* (the enumerated prices have no tie at the third decimal)
ChartJson ==
    { EmptyDict,
      [prices |-> <<>>],
      [prices |-> << <<0, 1234>>, <<86400000, 1236>>, <<90000000, 2001>> >>] }
ChartOutcomes == {HttpError} \cup {HttpOk(j) : j \in ChartJson}
\* datetime.utcfromtimestamp(ms / 1000).strftime("%b %d"), for January 1970
DateLabel(ms) == <<"Jan", ((ms \div 1000) \div 86400) + 1>>
Round2(mills) == (mills + 5) \div 10
get_btc_chart_7d(out) ==
    LET data == OrDefault(http_get(out), EmptyDict)
        prices == DictGet(data, "prices", EmptyList)
    IN  [labels |-> [i \in 1..Len(prices) |-> DateLabel(prices[i][1])],
         values |-> [i \in 1..Len(prices) |-> Round2(prices[i][2])]]

\* ---------------------------------------------------------------- table
\* variant: SELECT coin_id FROM portfolio, without DISTINCT
RECURSIVE PlainScan(_, _, _)
PlainScan(r, id, acc) ==
    IF id >= nextId THEN acc
    ELSE PlainScan(r, id + 1, IF id \in DOMAIN r THEN Append(acc, r[id].coin_id) ELSE acc)
SelectCoinIds(r) == PlainScan(r, 1, <<>>)

\* SELECT DISTINCT coin_id FROM portfolio: the table is scanned in rowid
\* order and each coin_id is kept the first time it is met
RECURSIVE DistinctScan(_, _, _)
DistinctScan(r, id, acc) ==
    IF id >= nextId THEN acc
    ELSE DistinctScan(r, id + 1,
                      IF id \in DOMAIN r /\ r[id].coin_id \notin SeqToSet(acc)
                      THEN Append(acc, r[id].coin_id) ELSE acc)
SelectDistinctCoinIds(r) == DistinctScan(r, 1, <<>>)

\* variant: the UPDATE reaches one row of the coin only
SqlUpdateOneRow(r, coin_id, price, now_iso) ==
    [id \in DOMAIN r |->
        IF r[id].coin_id = coin_id /\ \A j \in DOMAIN r : r[j].coin_id = coin_id => id <= j
        THEN [r[id] EXCEPT !.current_price = SqlReal(price), !.last_updated = now_iso]
        ELSE r[id]]
\* variant: the two bound parameters are swapped
SqlUpdateSwapped(r, coin_id, price, now_iso) ==
    [id \in DOMAIN r |->
        IF r[id].coin_id = coin_id
        THEN [r[id] EXCEPT !.current_price = F(now_iso), !.last_updated = price.val]
        ELSE r[id]]
\* UPDATE portfolio SET current_price=?, last_updated=? WHERE coin_id=?
SqlUpdate(r, coin_id, price, now_iso) ==
    [id \in DOMAIN r |->
        IF r[id].coin_id = coin_id
        THEN [r[id] EXCEPT !.current_price = SqlReal(price), !.last_updated = now_iso]
        ELSE r[id]]

\* variant: a missing price is written as 0.0, as add_coin's get("usd", 0.0)
RECURSIVE UpdateLoopNoSkip(_, _, _, _)
UpdateLoopNoSkip(r, ids, prices, now_iso) ==
    IF ids = <<>> THEN r
    ELSE UpdateLoopNoSkip(SqlUpdate(r, Head(ids),
                                    IF HasUsd(prices, Head(ids))
                                    THEN float_num(UsdOf(prices, Head(ids))) ELSE F(0),
                                    now_iso),
                          Tail(ids), prices, now_iso)
\* variant: "if not usd_price" instead of "if usd_price is None"
RECURSIVE UpdateLoopFalsy(_, _, _, _)
UpdateLoopFalsy(r, ids, prices, now_iso) ==
    IF ids = <<>> THEN r
    ELSE UpdateLoopFalsy(IF HasUsd(prices, Head(ids)) /\ UsdOf(prices, Head(ids)) # 0
                         THEN SqlUpdate(r, Head(ids), float_num(UsdOf(prices, Head(ids))), now_iso)
                         ELSE r,
                         Tail(ids), prices, now_iso)
\* the for loop of refresh_portfolio_prices
RECURSIVE UpdateLoop(_, _, _, _)
UpdateLoop(r, ids, prices, now_iso) ==
    IF ids = <<>> THEN r
    ELSE UpdateLoop(IF HasUsd(prices, Head(ids))
                    THEN SqlUpdate(r, Head(ids), float_num(UsdOf(prices, Head(ids))), now_iso)
                    ELSE r,
                    Tail(ids), prices, now_iso)

\* INSERT INTO portfolio (...) VALUES (...), the id assigned by AUTOINCREMENT
SqlInsert(r, id, coin_id, name, symbol, quantity, price, now_iso) ==
    [i \in DOMAIN r \cup {id} |->
        IF i = id
        THEN [coin_id |-> coin_id, name |-> name, symbol |-> symbol,
              quantity |-> SqlReal(quantity), current_price |-> SqlReal(price),
              last_updated |-> now_iso]
        ELSE r[i]]

\* variant: the DELETE matches on the coin of the row instead of its id
SqlDeleteCoin(r, item_id) ==
    [i \in {j \in DOMAIN r : item_id \notin DOMAIN r \/ r[j].coin_id # r[item_id].coin_id} |-> r[i]]
\* DELETE FROM portfolio WHERE id=?
SqlDelete(r, item_id) == [i \in DOMAIN r \ {item_id} |-> r[i]]

\* try: quantity = float(quantity_raw) except ValueError: quantity = 0.0
ParseQuantity(quantity_raw) ==
    LET parsed == float_str(quantity_raw)
    IN  IF parsed.ok THEN parsed.f ELSE F(0)

\* float(prices.get(coin_id, {}).get("usd", 0.0))
SeedPrice(prices, coin_id) ==
    IF HasUsd(prices, coin_id) THEN float_num(UsdOf(prices, coin_id)) ELSE F(0)

\* ---------------------------------------------------------------- history
\* the most recent price a lookup returned for each coin id
NotePrices(lp, ids, prices) ==
    LET got == {c \in SeqToSet(ids) : HasUsd(prices, c)}
    IN  [c \in DOMAIN lp \cup got |->
            IF c \in got THEN float_num(UsdOf(prices, c)) ELSE lp[c]]
\* per row of r: the most recent price returned for its coin by the add that
\* created it or by a refresh since, 0.0 while there is none
NoteSeen(sn, r, ids, prices) ==
    [id \in DOMAIN r |->
        IF r[id].coin_id \in SeqToSet(ids) /\ HasUsd(prices, r[id].coin_id)
        THEN float_num(UsdOf(prices, r[id].coin_id))
        ELSE IF id \in DOMAIN sn THEN sn[id] ELSE F(0)]

\* ---------------------------------------------------------------- Init
NoRows == [i \in {} |-> 0]

Init ==
    /\ rows = NoRows
    /\ nextId = 1
    /\ clock = 0
    /\ last = [op |-> "init_db"]
    /\ lastPrice = EmptyDict
    /\ seen = NoRows
    /\ pc = [p \in Procs |-> "idle"]
    /\ r_ids = [p \in Procs |-> <<>>]
    /\ r_prices = [p \in Procs |-> EmptyDict]
    /\ r_now = [p \in Procs |-> 0]
    /\ overtaken = [p \in Procs |-> FALSE]
    /\ stamps = {}
    /\ lost = FALSE

\* ---------------------------------------------------------------- operations
\* POST /portfolio/add: the form fields, the single-id lookup, the INSERT.
\* prices is never None in the code; were it None, prices.get would raise
\* and nothing would be committed.
add_coin(coin_in, name_in, symbol_in, quantity_raw, out) ==
    LET coin_id == StripLower(coin_in)
        name == Strip(name_in)
        symbol == StripLower(symbol_in)
        quantity == ParseQuantity(quantity_raw)
        prices == get_simple_prices(<<coin_id>>, out)
        now_iso == clock + 1
    IN  /\ nextId <= MaxId
        /\ clock < MaxClock
        /\ IF prices = PyNone
           THEN UNCHANGED <<rows, nextId, clock>>
           ELSE /\ rows' = SqlInsert(rows, nextId, coin_id, name, symbol, quantity,
                                     SeedPrice(prices, coin_id), now_iso)
                /\ nextId' = nextId + 1
                /\ clock' = now_iso

\* refresh_portfolio_prices(): ids is the result of the SELECT DISTINCT
refresh_portfolio_prices(ids, out) ==
    IF ids = <<>>
    THEN UNCHANGED <<rows, nextId, clock>>
    ELSE LET prices == get_simple_prices(ids, out)
             now_iso == clock + 1
         IN  /\ clock < MaxClock
             /\ IF prices = PyNone
                THEN UNCHANGED <<rows, nextId, clock>>
                ELSE /\ rows' = UpdateLoop(rows, ids, prices, now_iso)
                     /\ clock' = now_iso
                     /\ UNCHANGED nextId

\* GET /portfolio/delete/<item_id>
delete_coin(item_id) ==
    /\ rows' = SqlDelete(rows, item_id)
    /\ UNCHANGED <<nextId, clock>>

\* ---------------------------------------------------------------- actions
\* Each action runs one operation to completion and records it in last.
AddRecord(coin_in, quantity_raw, out) ==
    LET coin_id == StripLower(coin_in)
        prices == get_simple_prices(<<coin_id>>, out)
    IN  IF prices = PyNone
        THEN [op |-> "add_raised", calls |-> << <<coin_id>> >>, out |-> out]
        ELSE [op |-> "add", coin_id |-> coin_id, quantity_raw |-> quantity_raw,
              calls |-> << <<coin_id>> >>, out |-> out, prices |-> prices,
              id |-> nextId, now |-> clock + 1]

RefreshRecord(ids, out) ==
    IF ids = <<>>
    THEN [op |-> "refresh", ids |-> ids, calls |-> <<>>]
    ELSE IF get_simple_prices(ids, out) = PyNone
    THEN [op |-> "refresh_raised", ids |-> ids, calls |-> <<ids>>, out |-> out]
    ELSE [op |-> "refresh", ids |-> ids, calls |-> <<ids>>, out |-> out,
          prices |-> get_simple_prices(ids, out), now |-> clock + 1]

AddCoinWith(coin_in, outcomes) ==
    \E name_in \in NameInputs, symbol_in \in SymbolInputs,
       quantity_raw \in QuantityInputs, out \in outcomes :
        LET coin_id == StripLower(coin_in)
            rec == AddRecord(coin_in, quantity_raw, out)
        IN  /\ add_coin(coin_in, name_in, symbol_in, quantity_raw, out)
            /\ last' = rec
            /\ lastPrice' = IF rec.op = "add"
                            THEN NotePrices(lastPrice, <<coin_id>>, rec.prices)
                            ELSE lastPrice
            /\ seen' = IF rec.op = "add"
                       THEN NoteSeen(seen, [i \in {rec.id} |-> rows'[i]], <<coin_id>>,
                                     rec.prices) @@ seen
                       ELSE seen
            /\ UNCHANGED conc

RefreshAllWith(outcomes) ==
    \E out \in outcomes :
        LET ids == SelectDistinctCoinIds(rows)
            rec == RefreshRecord(ids, out)
        IN  /\ refresh_portfolio_prices(ids, out)
            /\ last' = rec
            /\ lastPrice' = IF rec.calls # <<>> /\ rec.op = "refresh"
                            THEN NotePrices(lastPrice, ids, rec.prices)
                            ELSE lastPrice
            /\ seen' = IF rec.calls # <<>> /\ rec.op = "refresh"
                       THEN NoteSeen(seen, rows, ids, rec.prices)
                       ELSE seen
            /\ UNCHANGED conc

AddCoin ==
    \E coin_in \in CoinIdInputs :
        AddCoinWith(coin_in, SimplePriceOutcomes(<<StripLower(coin_in)>>))

RefreshAll == RefreshAllWith(SimplePriceOutcomes(SelectDistinctCoinIds(rows)))

DeleteCoin ==
    \E item_id \in 1..MaxId :
        /\ delete_coin(item_id)
        /\ last' = [op |-> "delete", id |-> item_id, found |-> item_id \in DOMAIN rows]
        /\ seen' = [i \in DOMAIN seen \ {item_id} |-> seen[i]]
        /\ UNCHANGED lastPrice
        /\ UNCHANGED conc

Next == AddCoin \/ RefreshAll \/ DeleteCoin

Spec == Init /\ [][Next]_vars

\* ---------------------------------------------------------------- outage
\* The gateway operations on their own, and the table operations while
\* every /simple/price request fails.
TopCoins ==
    \E out \in MarketsOutcomes :
        /\ last' = [op |-> "top_coins", out |-> out, result |-> get_top_coins(out)]
        /\ UNCHANGED <<rows, nextId, clock, lastPrice, seen>>
        /\ UNCHANGED conc

BtcChart ==
    \E out \in ChartOutcomes :
        /\ last' = [op |-> "btc_chart", out |-> out, result |-> get_btc_chart_7d(out)]
        /\ UNCHANGED <<rows, nextId, clock, lastPrice, seen>>
        /\ UNCHANGED conc

CoinLogos ==
    \E out \in MarketsOutcomes :
        /\ last' = [op |-> "coin_logos", ids |-> SelectDistinctCoinIds(rows), out |-> out,
                    result |-> get_coin_logos_by_ids(SelectDistinctCoinIds(rows), out)]
        /\ UNCHANGED <<rows, nextId, clock, lastPrice, seen>>
        /\ UNCHANGED conc

AddCoinOutage == \E coin_in \in CoinIdInputs : AddCoinWith(coin_in, {HttpError})

RefreshAllOutage == RefreshAllWith({HttpError})

NextGateway ==
    TopCoins \/ BtcChart \/ CoinLogos \/ AddCoinOutage \/ RefreshAllOutage \/ DeleteCoin

SpecGateway == Init /\ [][NextGateway]_vars

\* ---------------------------------------------------------------- interleaving
\* Two executions of refresh_portfolio_prices whose steps interleave: the
\* SELECT DISTINCT, the lookup, the reading of the clock, and the UPDATEs
\* with their commit.  Each opens its own connection; nothing spans the
\* SELECT and the UPDATEs.  add_coin and delete_coin commit in one step.
Idle(f, p, init) == [f EXCEPT ![p] = init]

ConcRead(p) ==
    LET ids == SelectDistinctCoinIds(rows)
    IN  /\ pc[p] = "idle"
        /\ ids # <<>>
        /\ pc' = [pc EXCEPT ![p] = "lookup"]
        /\ r_ids' = [r_ids EXCEPT ![p] = ids]
        /\ overtaken' = [overtaken EXCEPT ![p] = FALSE]
        /\ UNCHANGED <<rows, nextId, clock, r_prices, r_now, stamps, lost>>
        /\ UNCHANGED hist

ConcLookup(p) ==
    /\ pc[p] = "lookup"
    /\ \E out \in SimplePriceOutcomes(r_ids[p]) :
        LET prices == get_simple_prices(r_ids[p], out)
        IN  IF prices = PyNone
            THEN /\ pc' = [pc EXCEPT ![p] = "idle"]
                 /\ r_ids' = Idle(r_ids, p, <<>>)
                 /\ UNCHANGED r_prices
            ELSE /\ pc' = [pc EXCEPT ![p] = "stamp"]
                 /\ r_prices' = [r_prices EXCEPT ![p] = prices]
                 /\ UNCHANGED r_ids
    /\ UNCHANGED <<rows, nextId, clock, r_now, overtaken, stamps, lost>>
    /\ UNCHANGED hist

ConcStamp(p) ==
    /\ pc[p] = "stamp"
    /\ clock < MaxClock
    /\ clock' = clock + 1
    /\ r_now' = [r_now EXCEPT ![p] = clock + 1]
    /\ pc' = [pc EXCEPT ![p] = "write"]
    /\ UNCHANGED <<rows, nextId, r_ids, r_prices, overtaken, stamps, lost>>
    /\ UNCHANGED hist

ConcWrite(p) ==
    /\ pc[p] = "write"
    /\ rows' = UpdateLoop(rows, r_ids[p], r_prices[p], r_now[p])
    /\ pc' = [pc EXCEPT ![p] = "idle"]
    /\ r_ids' = Idle(r_ids, p, <<>>)
    /\ r_prices' = Idle(r_prices, p, EmptyDict)
    /\ r_now' = Idle(r_now, p, 0)
    /\ overtaken' = [q \in Procs |->
                        IF q = p THEN FALSE
                        ELSE overtaken[q]
                             \/ (pc[q] = "write" /\ r_now[q] < r_now[p] /\ rows' # rows)]
    /\ stamps' = IF rows' # rows THEN stamps \cup {r_now[p]} ELSE stamps
    /\ lost' = (lost \/ \E id \in DOMAIN rows :
                            /\ rows[id].last_updated \in stamps
                            /\ rows'[id].last_updated < rows[id].last_updated)
    /\ UNCHANGED <<nextId, clock>>
    /\ UNCHANGED hist

ConcAdd ==
    \E coin_in \in CoinIdInputs :
        \E out \in SimplePriceOutcomes(<<StripLower(coin_in)>>) :
            /\ add_coin(coin_in, "Coin", "SYM", <<"3">>, out)
            /\ overtaken' = [q \in Procs |-> overtaken[q] \/ (pc[q] = "write" /\ rows' # rows)]
            /\ UNCHANGED <<pc, r_ids, r_prices, r_now, stamps, lost>>
            /\ UNCHANGED hist

ConcDelete ==
    \E item_id \in 1..MaxId :
        /\ delete_coin(item_id)
        /\ UNCHANGED conc
        /\ UNCHANGED hist

NextConc ==
    \/ \E p \in Procs : ConcRead(p) \/ ConcLookup(p) \/ ConcStamp(p) \/ ConcWrite(p)
    \/ ConcAdd
    \/ ConcDelete

SpecConc == Init /\ [][NextConc]_vars

\* ---------------------------------------------------------------- claims
NoPriceFor(rec, coin_id) == rec.calls = <<>> \/ ~HasUsd(rec.prices, coin_id)
SameCoin(i, j) == i # j /\ rows[i].coin_id = rows[j].coin_id

\* C1: a refresh does not fail, and it leaves current_price and last_updated
\* of every row whose coin_id got no price from its lookup (id missing, entry
\* without usd, or failed gateway) as they were before it.
C1_StalenessPreserved ==
    [][ /\ last'.op # "refresh_raised"
        /\ last'.op = "refresh" =>
            \A id \in DOMAIN rows :
                NoPriceFor(last', rows[id].coin_id) =>
                    /\ id \in DOMAIN rows'
                    /\ rows'[id].current_price = rows[id].current_price
                    /\ rows'[id].last_updated = rows[id].last_updated ]_vars

\* a refresh that priced one stored coin and got nothing for another
C1_Witness ==
    /\ last.op = "refresh"
    /\ last.calls # <<>>
    /\ \E i, j \in DOMAIN rows :
        /\ ~HasUsd(last.prices, rows[i].coin_id)
        /\ HasUsd(last.prices, rows[j].coin_id)
        /\ rows[i].last_updated < last.now

\* C2: a refresh of an empty table makes no gateway call; of a non-empty one
\* exactly one get_simple_prices call, whose ids are the distinct stored
\* coin_id values, each once.
C2_Batching ==
    last.op = "refresh" =>
        IF DOMAIN rows = {}
        THEN last.calls = <<>>
        ELSE /\ Len(last.calls) = 1
             /\ SeqToSet(last.calls[1]) = {rows[id].coin_id : id \in DOMAIN rows}
             /\ Len(last.calls[1]) = Cardinality({rows[id].coin_id : id \in DOMAIN rows})

\* a refresh of a table in which two rows hold the same coin
C2_Witness ==
    /\ last.op = "refresh"
    /\ \E i, j \in DOMAIN rows : SameCoin(i, j)

\* C3: after a refresh whose lookup returned a price p for coin c, every row
\* of c has current_price p, and every row the refresh updated carries the
\* one timestamp the refresh took.
C3_SamePriceSameStamp ==
    last.op = "refresh" /\ last.calls # <<>> =>
        \A id \in DOMAIN rows :
            HasUsd(last.prices, rows[id].coin_id) =>
                /\ rows[id].current_price = F(UsdOf(last.prices, rows[id].coin_id))
                /\ rows[id].last_updated = last.now

\* a refresh that priced a coin two rows hold
C3_Witness ==
    /\ last.op = "refresh"
    /\ last.calls # <<>>
    /\ \E i, j \in DOMAIN rows : SameCoin(i, j) /\ HasUsd(last.prices, rows[i].coin_id)

\* C4 as stated: every row's current_price is the price of the most recent
\* lookup, by any add or refresh, that returned a price for its coin_id.
C4_Original ==
    \A id \in DOMAIN rows :
        rows[id].coin_id \in DOMAIN lastPrice =>
            rows[id].current_price = lastPrice[rows[id].coin_id]

\* C4 amended: every row's current_price is the price of the most recent
\* lookup, among the add that created the row and the refreshes run since,
\* that returned a price for its coin_id, and 0.0 while there is none.
C4_CachedPrice ==
    \A id \in DOMAIN rows : id \in DOMAIN seen /\ rows[id].current_price = seen[id]

\* a refresh that got no price for a row that holds a price from before
C4_Witness ==
    /\ last.op = "refresh"
    /\ last.calls # <<>>
    /\ \E id \in DOMAIN rows :
        /\ ~HasUsd(last.prices, rows[id].coin_id)
        /\ rows[id].current_price = F(1)

\* C5: last_updated of a row is set only by an operation whose lookup returned
\* a price for the row's coin_id.
C5_Original ==
    last.op \in {"add", "refresh"} /\ last.calls # <<>> =>
        \A id \in DOMAIN rows :
            rows[id].last_updated = last.now => HasUsd(last.prices, rows[id].coin_id)

\* C6: a failed HTTP fetch makes http_get return None and every gateway
\* operation its empty default, and an add or a refresh under a failing
\* gateway completes without raising.
C6_FailureDegrades ==
    /\ http_get(HttpError).none
    /\ last.op \in {"add_raised", "refresh_raised"} => last.out.ok
    /\ "out" \in DOMAIN last /\ ~last.out.ok =>
        /\ last.op = "top_coins" => last.result = EmptyList
        /\ last.op = "coin_logos" => last.result = EmptyDict
        /\ last.op = "btc_chart" => last.result = [labels |-> <<>>, values |-> <<>>]
        /\ last.op \in {"add", "refresh"} => last.prices = EmptyDict
        /\ last.op = "add" => last.id \in DOMAIN rows

\* a refresh of a non-empty table while the gateway fails
C6_Witness ==
    /\ last.op = "refresh"
    /\ last.calls # <<>>
    /\ ~last.out.ok

\* the value the claim gives the quantity field: the number the input
\* denotes, 0.0 for an input that denotes none
DenotesNumber(s) ==
    LET body == IF Len(s) > 0 /\ s[1] \in {"+", "-"} THEN Tail(s) ELSE s
    IN  Len(body) > 0 /\ \A i \in 1..Len(body) : IsDigit(body[i])
NumberDenoted(s) ==
    IF ~DenotesNumber(s) THEN F(0)
    ELSE IF s[1] = "-" THEN F(0 - DecVal(Tail(s)))
    ELSE IF s[1] = "+" THEN F(DecVal(Tail(s)))
    ELSE F(DecVal(s))

\* C7: an add never fails and stores exactly one new row, the others as they
\* were; the row's quantity is the number the input denotes, 0.0 for a
\* non-numeric input; its current_price is the price the lookup returned for
\* the coin, 0.0 when it returned none.
C7_Original ==
    [][ /\ last'.op # "add_raised"
        /\ last'.op = "add" /\ last' # last =>
            /\ last'.id \notin DOMAIN rows
            /\ DOMAIN rows' = DOMAIN rows \cup {last'.id}
            /\ \A id \in DOMAIN rows : rows'[id] = rows[id]
            /\ rows'[last'.id].quantity = NumberDenoted(last'.quantity_raw)
            /\ rows'[last'.id].current_price =
                  IF HasUsd(last'.prices, last'.coin_id)
                  THEN F(UsdOf(last'.prices, last'.coin_id)) ELSE F(0) ]_vars

\* C8: every stored quantity is a non-negative number.
C8_Original ==
    \A id \in DOMAIN rows : rows[id].quantity.kind = "real" /\ rows[id].quantity.val >= 0

\* C9: a delete removes exactly the row with the given id and leaves every
\* other row as it was; with no such row it changes nothing.
C9_DeleteExact ==
    [][ last'.op = "delete" =>
            /\ DOMAIN rows' = DOMAIN rows \ {last'.id}
            /\ \A id \in DOMAIN rows' : rows'[id] = rows[id]
            /\ last'.id \notin DOMAIN rows => rows' = rows ]_vars

\* a delete of an id no row has, from a table that holds rows
C9_Witness ==
    /\ last.op = "delete"
    /\ ~last.found
    /\ DOMAIN rows # {}

\* C10: a row's last_updated moves backwards only in the write of a refresh
\* that another handler overtook (took a later timestamp and committed
\* between this refresh's reading of the clock and its write); handled one at
\* a time it never decreases.  The witness is the lost update itself.
C10_BackwardsOnlyWhenOvertaken ==
    [][ (\E id \in DOMAIN rows \cap DOMAIN rows' :
            rows'[id].last_updated < rows[id].last_updated)
        => \E p \in Procs : pc[p] = "write" /\ pc'[p] = "idle" /\ overtaken[p] ]_vars

\* a refresh overwrote what a refresh with a later timestamp had written
C10_Witness == lost

====
